---- MODULE Spec2Model ----
(***************************************************************************)
(* The enrichment pipeline of the vocabulary service:                      *)
(*   VocabularyService.process_and_save_definitions  (cache gate, merge,    *)
(*   re-read), AIService.generate_definitions (batching, structured call,   *)
(*   fallback call, item validation) and the word / definition tables.      *)
(***************************************************************************)
EXTENDS Integers, Sequences, FiniteSets, TLC

\* ---------------------------------------------------------------- bounds
MaxLen == 2        \* longest lemma list handed to process_and_save_definitions
MaxNovel == 3      \* longest lemma list handed to generate_definitions directly
MaxItems == 2      \* most items the service returns during one generate_definitions

Lemmas == {"a", "b"}
Contents == {"d1", "d2"}
Missing == "<missing>"   \* a required field absent from (or mistyped in) an object

VARIABLES
    word_tbl,          \* table word: rows [id, lemma, language]
    definition_tbl,    \* table definition: rows [id, word_id, definition]
    batch_size,        \* AIService.batch_size
    pc,                \* position of the running call
    lemmas,            \* argument of process_and_save_definitions
    existing_words,    \* local: definitions served by the cache gate
    new_lemmas,        \* local: lemmas the gate found novel
    bi,                \* generate_definitions: index of the current batch
    definitions,       \* generate_definitions: local list `definitions`
    new_definitions,   \* local: what _save_definition returned, in order
    result,            \* sorted_definitions, the value returned
    calls,             \* requests issued to the service by the running call
    resp,              \* the last response the service gave
    err,               \* the exception the running call ended with
    pre,               \* the tables as they were when the running call began
    prev,              \* summary of the call before the running one
    merger,            \* concurrent callers of the merge: each one's position and locals
    text,              \* argument of process_text: the words and blanks of the text
    known_words,       \* argument of process_text
    nlp_pc,            \* position of the process_text call
    annotator_calls,   \* how many times process_text has run self.nlp(text)
    results,           \* the list process_text returned
    self_nlp,          \* NLPService.nlp: "None" or "loaded"
    annotator_outcome, \* how self.nlp(text) ended: "" (not run), "doc" or "raised"
    nlp_err,           \* the exception the constructor or process_text ended with
    deck_tbl,          \* table vocabulary_deck: rows [id, user_id, name]
    deck_word_tbl,     \* table vocabulary_deck_word: rows [deck_id, word_id]
    deck_id            \* argument deck_id of the running call, 0 for None

vars == <<word_tbl, definition_tbl, batch_size, pc, lemmas, existing_words,
          new_lemmas, bi, definitions, new_definitions, result, calls,
          resp, err, pre, prev, merger, text, known_words, nlp_pc,
          annotator_calls, results, self_nlp, annotator_outcome, nlp_err,
          deck_tbl, deck_word_tbl, deck_id>>

\* the extraction stage, which shares nothing with the store
extraction == <<text, known_words, nlp_pc, annotator_calls, results, self_nlp,
                annotator_outcome, nlp_err>>

\* what the enrichment pipeline itself never touches
aside == <<merger, extraction>>

\* the decks, which only a call with a deck touches
decks == <<deck_tbl, deck_word_tbl, deck_id>>

\* no deck in the store, and none asked for
NoDecks ==
    /\ deck_tbl = {}
    /\ deck_word_tbl = {}
    /\ deck_id = 0

\* no process_text call in sight
NoExtraction ==
    /\ text = <<>>
    /\ known_words = {}
    /\ nlp_pc = "idle"
    /\ annotator_calls = 0
    /\ results = <<>>
    /\ self_nlp = "None"
    /\ annotator_outcome = ""
    /\ nlp_err = [type |-> "", content |-> ""]

\* ------------------------------------------------------------- utilities
Range(s) == {s[i] : i \in DOMAIN s}
SeqsUpTo(S, n) == UNION {[1..k -> S] : k \in 0..n}
MaxId(tbl) == IF tbl = {} THEN 0 ELSE CHOOSE m \in {r.id : r \in tbl} : \A r \in tbl : r.id <= m

NoWord == [id |-> 0, lemma |-> "", language |-> ""]
NoDefinition == [id |-> 0, word_id |-> 0, definition |-> ""]
NoError == [type |-> "", content |-> ""]
NoResponse == [path |-> "", kind |-> "", content |-> "", schema_ok |-> TRUE]
NoCall == [status |-> "none", lemmas |-> <<>>, novel |-> <<>>, result |-> <<>>, ncalls |-> 0]

\* ------------------------------------------------------- word repository
\* SELECT * FROM word WHERE lemma = ? AND language = ?  (fetchone)
get_by_word(tbl, lemma, language) ==
    LET rows == {r \in tbl : r.lemma = lemma /\ r.language = language}
    IN IF rows = {} THEN NoWord ELSE CHOOSE r \in rows : TRUE

get_by_lemma(tbl, lemma) == get_by_word(tbl, lemma, "nl")

\* INSERT INTO word (lemma, language); the row id is AUTOINCREMENT
WordCreate(tbl, lemma, language) ==
    LET row == [id |-> MaxId(tbl) + 1, lemma |-> lemma, language |-> language]
    IN [row |-> row, tbl |-> tbl \cup {row}]

\* ------------------------------------------------- definition repository
\* SELECT * FROM definition WHERE word_id = ?  (fetchone)
get_by_word_id(tbl, word_id) ==
    LET rows == {r \in tbl : r.word_id = word_id}
    IN IF rows = {} THEN NoDefinition ELSE CHOOSE r \in rows : TRUE

DefinitionCreate(tbl, word_id, content) ==
    LET row == [id |-> MaxId(tbl) + 1, word_id |-> word_id, definition |-> content]
    IN [row |-> row, tbl |-> tbl \cup {row}]

\* UPDATE definition SET ... WHERE id = ?
DefinitionUpdate(tbl, definition_id, content) ==
    {IF r.id = definition_id THEN [r EXCEPT !.definition = content] ELSE r : r \in tbl}

\* ------------------------------------------------------ persistence merge
_save_word(tbl, lemma) ==
    LET existing_word == get_by_lemma(tbl, lemma)
    IN IF existing_word # NoWord
       THEN [row |-> existing_word, tbl |-> tbl]
       ELSE WordCreate(tbl, lemma, "nl")

\* the existence check forgotten: always INSERT
_save_definition_AlwaysCreate(tbl, word_id, item) ==
    DefinitionCreate(tbl, word_id, item.definition)

\* returns existing_definition (the object read before the UPDATE) on the
\* update path, the created object on the create path
_save_definition(tbl, word_id, item) ==
    LET existing_definition == get_by_word_id(tbl, word_id)
    IN IF existing_definition # NoDefinition
       THEN [row |-> existing_definition,
             tbl |-> DefinitionUpdate(tbl, existing_definition.id, item.definition)]
       ELSE DefinitionCreate(tbl, word_id, item.definition)


\* ------------------------------------------------------------ cache gate
\* lines 54-60: a lemma is served from the store when its word row exists
\* and that word has a definition row
IsCached_Never(wt, dt, lemma) == FALSE

IsCached_WordOnly(wt, dt, lemma) == get_by_lemma(wt, lemma) # NoWord

IsCached(wt, dt, lemma) ==
    LET word == get_by_lemma(wt, lemma)
    IN IF word # NoWord
       THEN get_by_word_id(dt, word.id) # NoDefinition
       ELSE FALSE

RECURSIVE GateLoop(_, _, _, _, _, _)
GateLoop(wt, dt, ls, i, existing, novel) ==
    IF i > Len(ls)
    THEN [existing_words |-> existing, new_lemmas |-> novel]
    ELSE IF IsCached(wt, dt, ls[i])
         THEN GateLoop(wt, dt, ls, i + 1,
                       Append(existing, get_by_word_id(dt, get_by_lemma(wt, ls[i]).id)),
                       novel)
         ELSE GateLoop(wt, dt, ls, i + 1, existing, Append(novel, ls[i]))

CacheGate_NoGate(wt, dt, ls) == [existing_words |-> <<>>, new_lemmas |-> ls]

CacheGate(wt, dt, ls) == GateLoop(wt, dt, ls, 1, <<>>, <<>>)

\* ---------------------------------------------------------------- _batch
RECURSIVE BatchLoop(_, _, _, _, _)
BatchLoop(iterable, size, i, batch, out) ==
    IF i > Len(iterable)
    THEN IF batch # <<>> THEN Append(out, batch) ELSE out
    ELSE LET b == Append(batch, iterable[i])
         IN IF Len(b) = size
            THEN BatchLoop(iterable, size, i + 1, <<>>, Append(out, b))
            ELSE BatchLoop(iterable, size, i + 1, b, out)

\* the trailing `if batch: yield batch` forgotten
_batch_DropTail(iterable, size) ==
    LET all == BatchLoop(iterable, size, 1, <<>>, <<>>)
    IN IF all # <<>> /\ Len(all[Len(all)]) # size THEN SubSeq(all, 1, Len(all) - 1) ELSE all

_batch(iterable, size) == BatchLoop(iterable, size, 1, <<>>, <<>>)

\* ------------------------------------------------- the generative service
\* an object of a response: the keyword arguments of DefinitionItem(**obj)
ValidObjs == [lemma : Lemmas, definition : Contents]
RawObjs == ValidObjs \cup {[lemma |-> "a", definition |-> Missing]}

\* chat.completions.create(..., functions=..., function_call=...)
StructuredResponses(budget) ==
    {[path |-> "structured", kind |-> k, items |-> <<>>, content |-> ""] :
        k \in {"api_error", "absent", "malformed", "empty_object"}}
    \cup
    {[path |-> "structured", kind |-> "object", items |-> s, content |-> ""] :
        s \in SeqsUpTo(RawObjs, budget)}

\* chat.completions.create(...) without functions: message.content
FallbackResponses(budget) ==
    {[path |-> "fallback", kind |-> "api_error", items |-> <<>>, content |-> ""],
     [path |-> "fallback", kind |-> "none", items |-> <<>>, content |-> ""],
     [path |-> "fallback", kind |-> "text", items |-> <<>>, content |-> "junk"]}
    \cup
    {[path |-> "fallback", kind |-> k, items |-> s, content |-> "json"] :
        k \in {"list", "object"}, s \in SeqsUpTo(RawObjs, budget)}

\* lines 94-108: the try block.  "api_error": create() raises; "absent":
\* message.function_call is None; "malformed": json.loads raises or the
\* value has no .get; "empty_object": data.get("definitions", []) defaults
structured_outcome(r) ==
    IF r.kind \in {"api_error", "absent", "malformed"}
    THEN [status |-> "fallback", items |-> <<>>]
    ELSE IF r.kind = "empty_object"
         THEN [status |-> "items", items |-> <<>>]
         ELSE [status |-> "items", items |-> r.items]

\* lines 114-125: the except block.  items = json.loads(content): a list is
\* iterated as it is, an object {"definitions": [...]} is iterated by its keys
fallback_outcome(r) ==
    IF r.kind = "api_error"
    THEN [status |-> "raise", items |-> <<>>, err |-> [type |-> "APIError", content |-> ""]]
    ELSE IF r.kind = "none"
    THEN [status |-> "raise", items |-> <<>>, err |-> [type |-> "TypeError", content |-> ""]]
    ELSE IF r.kind = "text"
    THEN [status |-> "raise", items |-> <<>>, err |-> [type |-> "ValueError", content |-> r.content]]
    ELSE IF r.kind = "list"
    THEN [status |-> "items", items |-> r.items, err |-> NoError]
    ELSE [status |-> "keys", items |-> <<"definitions">>, err |-> NoError]

\* DefinitionItem(**obj), lines 9-15: every field is required, and a str
\* field takes any string
Accepts(obj) == \A f \in DOMAIN obj : obj[f] # Missing

\* lines 127-128: for obj in items: definitions.append(DefinitionItem(**obj))
RECURSIVE ValidateLoop(_, _, _)
ValidateLoop(items, i, acc) ==
    IF i > Len(items)
    THEN [ok |-> TRUE, items |-> acc, err |-> NoError]
    ELSE IF ~Accepts(items[i])
         THEN [ok |-> FALSE, items |-> acc,
               err |-> [type |-> "ValidationError", content |-> ""]]
         ELSE ValidateLoop(items, i + 1, Append(acc, items[i]))

\* what the caller can tell about a response afterwards
Seen(r) == [path |-> r.path, kind |-> r.kind, content |-> r.content,
            schema_ok |-> \A i \in DOMAIN r.items : r.items[i] \in ValidObjs]

\* `outcome` is what the try/except left in `items`
validate(outcome, acc) ==
    IF outcome.status = "keys"
    THEN [ok |-> FALSE, items |-> acc, err |-> [type |-> "TypeError", content |-> ""]]
    ELSE ValidateLoop(outcome.items, 1, acc)

\* -------------------------------------------------------------- re-read
\* lines 85-93: for lemma in lemmas: re-read word and definition
RECURSIVE RereadLoop(_, _, _, _, _)
RereadLoop(wt, dt, ls, i, acc) ==
    IF i > Len(ls)
    THEN acc
    ELSE LET word == get_by_lemma(wt, ls[i])
             definition == IF word # NoWord THEN get_by_word_id(dt, word.id)
                           ELSE NoDefinition
         IN IF definition # NoDefinition
            THEN RereadLoop(wt, dt, ls, i + 1, Append(acc, definition))
            ELSE RereadLoop(wt, dt, ls, i + 1, acc)

\* `return all_definitions` (existing + new, in arrival order)
sorted_definitions_Arrival(wt, dt, ls, all_definitions) == all_definitions

sorted_definitions(wt, dt, ls, all_definitions) == RereadLoop(wt, dt, ls, 1, <<>>)


\* ------------------------------------------------------------ the stores
\* a store the service can find at start-up: per lemma no word row, a word
\* row alone (word and definition rows are committed separately), or a word
\* row with its definition row
\* row ids are handed out in insertion order ("a" before "b")
StoreShapes == [Lemmas -> {"absent", "word", "defined"}]
WordId(sh, l) == IF l = "a" \/ sh["a"] = "absent" THEN 1 ELSE 2
DefinitionId(sh, l) == IF l = "a" \/ sh["a"] # "defined" THEN 1 ELSE 2
WordsOf(sh) == {[id |-> WordId(sh, l), lemma |-> l, language |-> "nl"] :
                   l \in {x \in Lemmas : sh[x] # "absent"}}
DefinitionsOf(sh) == {[id |-> DefinitionId(sh, l), word_id |-> WordId(sh, l),
                       definition |-> "d1"] :
                         l \in {x \in Lemmas : sh[x] = "defined"}}

Init ==
    /\ \E sh \in StoreShapes :
         /\ word_tbl = WordsOf(sh)
         /\ definition_tbl = DefinitionsOf(sh)
    /\ batch_size \in 1..MaxLen
    /\ pc = "idle"
    /\ lemmas = <<>>
    /\ existing_words = <<>>
    /\ new_lemmas = <<>>
    /\ bi = 1
    /\ definitions = <<>>
    /\ new_definitions = <<>>
    /\ result = <<>>
    /\ calls = <<>>
    /\ resp = NoResponse
    /\ err = NoError
    /\ pre = [word |-> {}, definition |-> {}]
    /\ prev = NoCall
    /\ merger = <<>>
    /\ NoExtraction
    /\ NoDecks

\* what the caller of the call that just ended saw of it
Summary ==
    IF pc = "idle" THEN NoCall
    ELSE [status |-> pc, lemmas |-> lemmas, novel |-> new_lemmas, result |-> result,
          ncalls |-> Len(calls)]

\* process_and_save_definitions(ls), lines 48-67: the cache gate
StartCall(ls) ==
    /\ LET gate == CacheGate(word_tbl, definition_tbl, ls)
       IN /\ lemmas' = ls
          /\ existing_words' = gate.existing_words
          /\ new_lemmas' = gate.new_lemmas
          /\ pc' = IF gate.new_lemmas # <<>> THEN "generate" ELSE "save"
    /\ pre' = [word |-> word_tbl, definition |-> definition_tbl]
    /\ bi' = 1
    /\ definitions' = <<>>
    /\ new_definitions' = <<>>
    /\ result' = <<>>
    /\ calls' = <<>>
    /\ resp' = NoResponse
    /\ err' = NoError
    /\ UNCHANGED <<word_tbl, definition_tbl, batch_size>>
    /\ UNCHANGED aside

\* a caller invokes process_and_save_definitions with some lemma list
Start ==
    /\ pc \in {"idle", "done", "failed"}
    /\ \E ls \in SeqsUpTo(Lemmas, MaxLen) : StartCall(ls)
    /\ prev' = NoCall
    /\ UNCHANGED decks

\* lines 127-130 of generate_definitions: validate the items of the batch,
\* then go on to the next batch, return, or unwind with the exception
Absorb(outcome) ==
    LET v == validate(outcome, definitions)
    IN /\ definitions' = v.items
       /\ err' = v.err
       /\ IF ~v.ok
          THEN pc' = "failed" /\ bi' = bi
          ELSE IF bi < Len(_batch(new_lemmas, batch_size))
               THEN pc' = "generate" /\ bi' = bi + 1
               ELSE pc' = "save" /\ bi' = bi

\* the word of the first lemma of the batch written as soon as the batch is
\* answered, before the later batches are sent
StructuredCall_WritesWord ==
    /\ pc = "generate"
    /\ \E r \in StructuredResponses(MaxItems - Len(definitions)) :
         LET outcome == structured_outcome(r)
         IN /\ resp' = Seen(r)
            /\ calls' = Append(calls, [path |-> "structured", bi |-> bi,
                                       batch |-> _batch(new_lemmas, batch_size)[bi]])
            /\ IF outcome.status = "fallback"
               THEN /\ pc' = "fallback"
                    /\ UNCHANGED <<definitions, err, bi>>
               ELSE Absorb(outcome)
    /\ word_tbl' = _save_word(word_tbl, _batch(new_lemmas, batch_size)[bi][1]).tbl
    /\ UNCHANGED <<definition_tbl, batch_size, lemmas, existing_words,
                   new_lemmas, new_definitions, result, pre, prev>>
    /\ UNCHANGED aside
    /\ UNCHANGED decks

\* generate_definitions, lines 89-108: the structured request of batch bi
StructuredCall ==
    /\ pc = "generate"
    /\ \E r \in StructuredResponses(MaxItems - Len(definitions)) :
         LET outcome == structured_outcome(r)
         IN /\ resp' = Seen(r)
            /\ calls' = Append(calls, [path |-> "structured", bi |-> bi,
                                       batch |-> _batch(new_lemmas, batch_size)[bi]])
            /\ IF outcome.status = "fallback"
               THEN /\ pc' = "fallback"
                    /\ UNCHANGED <<definitions, err, bi>>
               ELSE Absorb(outcome)
    /\ UNCHANGED <<word_tbl, definition_tbl, batch_size, lemmas, existing_words,
                   new_lemmas, new_definitions, result, pre, prev>>
    /\ UNCHANGED aside
    /\ UNCHANGED decks

\* generate_definitions, lines 109-125: the plain request of batch bi
FallbackCall ==
    /\ pc = "fallback"
    /\ \E r \in FallbackResponses(MaxItems - Len(definitions)) :
         LET outcome == fallback_outcome(r)
         IN /\ resp' = Seen(r)
            /\ calls' = Append(calls, [path |-> "fallback", bi |-> bi,
                                       batch |-> _batch(new_lemmas, batch_size)[bi]])
            /\ IF outcome.status = "raise"
               THEN /\ pc' = "failed"
                    /\ err' = outcome.err
                    /\ UNCHANGED <<definitions, bi>>
               ELSE Absorb(outcome)
    /\ UNCHANGED <<word_tbl, definition_tbl, batch_size, lemmas, existing_words,
                   new_lemmas, new_definitions, result, pre, prev>>
    /\ UNCHANGED aside
    /\ UNCHANGED decks

\* add_words_to_deck, lines 144-147; add_word_to_deck swallows the error of
\* a pair already in the table
add_words_to_deck(tbl, did, word_ids) ==
    tbl \cup {[deck_id |-> did, word_id |-> word_ids[i]] : i \in DOMAIN word_ids}

\* process_and_save_definitions, lines 71-77: the save loop
RECURSIVE SaveLoop(_, _, _, _, _)
SaveLoop(wt, dt, items, i, saved) ==
    IF i > Len(items)
    THEN [word |-> wt, definition |-> dt, new_definitions |-> saved]
    ELSE LET w == _save_word(wt, items[i].lemma)
             d == _save_definition(dt, w.row.id, items[i])
         IN SaveLoop(w.tbl, d.tbl, items, i + 1, Append(saved, d.row))

\* process_and_save_definitions, lines 69-101: generate_definitions has
\* returned `definitions`; save every item, re-read, return
Finish ==
    /\ pc = "save"
    /\ LET st == SaveLoop(word_tbl, definition_tbl, definitions, 1, <<>>)
           sd == sorted_definitions(st.word, st.definition, lemmas,
                                    existing_words \o st.new_definitions)
       IN /\ word_tbl' = st.word
          /\ definition_tbl' = st.definition
          /\ new_definitions' = st.new_definitions
          /\ result' = sd
          /\ deck_word_tbl' =
                IF deck_id # 0 /\ sd # <<>>
                THEN add_words_to_deck(deck_word_tbl, deck_id,
                                       [i \in DOMAIN sd |-> sd[i].word_id])
                ELSE deck_word_tbl
    /\ pc' = "done"
    /\ UNCHANGED <<batch_size, lemmas, existing_words, new_lemmas, bi,
                   definitions, calls, resp, err, pre, prev>>
    /\ UNCHANGED aside
    /\ UNCHANGED <<deck_tbl, deck_id>>

\* line 101: what the caller receives, the list of Definition and nothing else
ReturnValue == [definitions |-> result]

Next == Start \/ StructuredCall \/ FallbackCall \/ Finish

Spec == Init /\ [][Next]_vars

\* ---------------------------------------- the same call made twice in a row
\* the caller repeats the call that just ended, with the same lemma list
Again ==
    /\ pc \in {"done", "failed"}
    /\ prev = NoCall
    /\ StartCall(lemmas)
    /\ prev' = Summary
    /\ UNCHANGED decks

First ==
    /\ pc = "idle"
    /\ \E l \in Lemmas : StartCall(<<l>>)
    /\ prev' = NoCall
    /\ UNCHANGED decks

NextTwice == First \/ Again \/ StructuredCall \/ FallbackCall \/ Finish

SpecTwice == Init /\ [][NextTwice]_vars

\* ----------------------- generate_definitions called on its own (REST, CLI)
InitAI ==
    /\ word_tbl = {}
    /\ definition_tbl = {}
    /\ batch_size \in -1..MaxNovel
    /\ pc = "idle"
    /\ lemmas = <<>>
    /\ existing_words = <<>>
    /\ new_lemmas = <<>>
    /\ bi = 1
    /\ definitions = <<>>
    /\ new_definitions = <<>>
    /\ result = <<>>
    /\ calls = <<>>
    /\ resp = NoResponse
    /\ err = NoError
    /\ pre = [word |-> {}, definition |-> {}]
    /\ prev = NoCall
    /\ merger = <<>>
    /\ NoExtraction
    /\ NoDecks

\* generate_definitions(ls), line 87; it has returned when pc = "save"
Generate ==
    /\ pc \in {"idle", "save", "failed"}
    /\ \E ls \in SeqsUpTo(Lemmas, MaxNovel) :
         /\ new_lemmas' = ls
         /\ pc' = IF _batch(ls, batch_size) # <<>> THEN "generate" ELSE "save"
    /\ bi' = 1
    /\ definitions' = <<>>
    /\ calls' = <<>>
    /\ resp' = NoResponse
    /\ err' = NoError
    /\ UNCHANGED <<word_tbl, definition_tbl, batch_size, lemmas, existing_words,
                   new_definitions, result, pre, prev>>
    /\ UNCHANGED aside
    /\ UNCHANGED decks

NextAI == Generate \/ StructuredCall \/ FallbackCall

SpecAI == InitAI /\ [][NextAI]_vars

\* ------------------------------------------------- the call with a deck
MaxDecks == 1

\* VocabularyRepository.create_deck: the INSERT, committed on its own
create_deck(tbl, user_id, name) ==
    LET row == [id |-> MaxId(tbl) + 1, user_id |-> user_id, name |-> name]
    IN [row |-> row, tbl |-> tbl \cup {row}]

\* process_and_save_definitions_with_deck, lines 355-375, down to the gate
\* of process_and_save_definitions(lemmas, deck.id if deck else None)
StartWithDeck ==
    /\ pc \in {"idle", "done", "failed"}
    /\ \E ls \in SeqsUpTo(Lemmas, MaxLen), deck_name \in {"", "deck"} :
         /\ deck_name # "" => Cardinality(deck_tbl) < MaxDecks
         /\ IF deck_name # ""
            THEN LET deck == create_deck(deck_tbl, 1, deck_name)
                 IN deck_tbl' = deck.tbl /\ deck_id' = deck.row.id
            ELSE deck_tbl' = deck_tbl /\ deck_id' = 0
         /\ StartCall(ls)
    /\ prev' = NoCall
    /\ UNCHANGED deck_word_tbl

NextDeck == StartWithDeck \/ StructuredCall \/ FallbackCall \/ Finish

SpecDeck == Init /\ [][NextDeck]_vars

\* ---------------------------- one call, the items taken field by field
MaxObjs == 1

\* the objects of a response with all the fields of DefinitionItem, each
\* string field filled, empty or absent; category is "[]" or a list of one
ItemObjs == [lemma : {"a", ""},
             definition : {"d1", "", Missing},
             example : {"e1", "", Missing},
             english_translation : {"t1", "", Missing},
             category : {"[]", "[c]"}]

\* generate_definitions, lines 89-108 and 127-130: the structured request of
\* batch bi, answered with a function call that parses
StructuredItemCall ==
    /\ pc = "generate"
    /\ \E s \in SeqsUpTo(ItemObjs, MaxObjs) :
         LET r == [path |-> "structured", kind |-> "object", items |-> s, content |-> ""]
         IN /\ resp' = [path |-> r.path, kind |-> r.kind, content |-> r.content,
                        schema_ok |-> \A i \in DOMAIN s : Accepts(s[i])]
            /\ calls' = Append(calls, [path |-> "structured", bi |-> bi,
                                       batch |-> _batch(new_lemmas, batch_size)[bi]])
            /\ Absorb(structured_outcome(r))
    /\ UNCHANGED <<word_tbl, definition_tbl, batch_size, lemmas, existing_words,
                   new_lemmas, new_definitions, result, pre, prev>>
    /\ UNCHANGED aside
    /\ UNCHANGED decks

NextItems == First \/ StructuredItemCall \/ Finish

SpecItems == Init /\ [][NextItems]_vars

\* ------------------------- two callers running the merge at the same time
\* Each caller runs one iteration of the save loop (lines 71-77): _save_word
\* then _save_definition.  Every repository operation is one statement,
\* committed on its own by get_cursor, so the callers interleave between them.
Mergers == {1, 2}

\* schema: word.lemma is UNIQUE; definition has UNIQUE(word_id)
word_lemma_taken(tbl, lemma) == \E w \in tbl : w.lemma = lemma
definition_word_id_taken(tbl, word_id) == \E d \in tbl : d.word_id = word_id

\* sqlite3.IntegrityError, as get_cursor re-raises it after the rollback
IntegrityError(column) ==
    [type |-> "IntegrityError", content |-> "UNIQUE constraint failed: " \o column]

pipeline == <<batch_size, pc, lemmas, existing_words, new_lemmas, bi, definitions,
              new_definitions, result, calls, resp, err, pre, prev, extraction, decks>>

InitRace ==
    /\ \E sh \in StoreShapes :
         /\ word_tbl = WordsOf(sh)
         /\ definition_tbl = DefinitionsOf(sh)
    /\ merger \in [Mergers -> {[pc |-> "_save_word", item |-> o, word |-> NoWord,
                                 existing_definition |-> NoDefinition,
                                 ret |-> NoDefinition, err |-> NoError] :
                                   o \in ValidObjs}]
    /\ batch_size = 1
    /\ pc = "idle"
    /\ lemmas = <<>>
    /\ existing_words = <<>>
    /\ new_lemmas = <<>>
    /\ bi = 1
    /\ definitions = <<>>
    /\ new_definitions = <<>>
    /\ result = <<>>
    /\ calls = <<>>
    /\ resp = NoResponse
    /\ err = NoError
    /\ pre = [word |-> word_tbl, definition |-> definition_tbl]
    /\ prev = NoCall
    /\ NoExtraction
    /\ NoDecks

\* _save_word, lines 106-108: existing_word = get_by_lemma(lemma)
SaveWordLookup ==
    \E p \in Mergers :
        /\ merger[p].pc = "_save_word"
        /\ LET existing_word == get_by_lemma(word_tbl, merger[p].item.lemma)
           IN merger' = [merger EXCEPT ![p] =
                 IF existing_word # NoWord
                 THEN [@ EXCEPT !.pc = "_save_definition", !.word = existing_word]
                 ELSE [@ EXCEPT !.pc = "word_create"]]
        /\ UNCHANGED <<word_tbl, definition_tbl>>
        /\ UNCHANGED pipeline

\* _save_word, line 111: word_repository.create(lemma, "nl"); the INSERT
\* fails on the UNIQUE column and nothing in _save_word catches it
SaveWordCreate ==
    \E p \in Mergers :
        /\ merger[p].pc = "word_create"
        /\ IF word_lemma_taken(word_tbl, merger[p].item.lemma)
           THEN /\ merger' = [merger EXCEPT ![p].pc = "failed",
                                            ![p].err = IntegrityError("word.lemma")]
                /\ UNCHANGED word_tbl
           ELSE LET c == WordCreate(word_tbl, merger[p].item.lemma, "nl")
                IN /\ word_tbl' = c.tbl
                   /\ merger' = [merger EXCEPT ![p].pc = "_save_definition",
                                               ![p].word = c.row]
        /\ UNCHANGED definition_tbl
        /\ UNCHANGED pipeline

\* _save_definition, lines 116-118: existing_definition = get_by_word_id(word_id)
SaveDefinitionLookup ==
    \E p \in Mergers :
        /\ merger[p].pc = "_save_definition"
        /\ LET existing_definition == get_by_word_id(definition_tbl, merger[p].word.id)
           IN merger' = [merger EXCEPT ![p] =
                 IF existing_definition # NoDefinition
                 THEN [@ EXCEPT !.pc = "definition_update",
                                !.existing_definition = existing_definition]
                 ELSE [@ EXCEPT !.pc = "definition_create"]]
        /\ UNCHANGED <<word_tbl, definition_tbl>>
        /\ UNCHANGED pipeline

\* _save_definition, lines 119-128: update, then return existing_definition
SaveDefinitionUpdate ==
    \E p \in Mergers :
        /\ merger[p].pc = "definition_update"
        /\ definition_tbl' = DefinitionUpdate(definition_tbl,
                                              merger[p].existing_definition.id,
                                              merger[p].item.definition)
        /\ merger' = [merger EXCEPT ![p].pc = "done",
                                    ![p].ret = merger[p].existing_definition]
        /\ UNCHANGED word_tbl
        /\ UNCHANGED pipeline

\* _save_definition, lines 130-138: definition_repository.create(...); the
\* INSERT fails on UNIQUE(word_id) and nothing in _save_definition catches it
SaveDefinitionCreate ==
    \E p \in Mergers :
        /\ merger[p].pc = "definition_create"
        /\ IF definition_word_id_taken(definition_tbl, merger[p].word.id)
           THEN /\ merger' = [merger EXCEPT ![p].pc = "failed",
                                            ![p].err = IntegrityError("definition.word_id")]
                /\ UNCHANGED definition_tbl
           ELSE LET c == DefinitionCreate(definition_tbl, merger[p].word.id,
                                          merger[p].item.definition)
                IN /\ definition_tbl' = c.tbl
                   /\ merger' = [merger EXCEPT ![p].pc = "done", ![p].ret = c.row]
        /\ UNCHANGED word_tbl
        /\ UNCHANGED pipeline

NextRace == SaveWordLookup \/ SaveWordCreate \/ SaveDefinitionLookup
               \/ SaveDefinitionUpdate \/ SaveDefinitionCreate

SpecRace == InitRace /\ [][NextRace]_vars

\* ------------------------------------------------ extraction: process_text
\* A string is the sequence of its characters.  A text is the sequence of its
\* words and blanks, each of them a string.
MaxTokens == 3

Upper == <<"A", "B", "C", "D", "E", "F", "G", "H", "I", "J", "K", "L", "M",
           "N", "O", "P", "Q", "R", "S", "T", "U", "V", "W", "X", "Y", "Z">>
Lower == <<"a", "b", "c", "d", "e", "f", "g", "h", "i", "j", "k", "l", "m",
           "n", "o", "p", "q", "r", "s", "t", "u", "v", "w", "x", "y", "z">>
Accented == <<"à", "á", "â", "ã", "ä", "å", "æ", "ç", "è", "é", "ê", "ë", "ì",
              "í", "î", "ï", "ð", "ñ", "ò", "ó", "ô", "õ", "ö", "ø", "ù", "ú",
              "û", "ü", "ý", "þ", "ÿ">>
Digits == <<"0", "1", "2", "3", "4", "5", "6", "7", "8", "9">>

\* the characters in code point order: str comparison goes by it
CodeOrder == <<" ", "-">> \o Digits \o Upper \o Lower \o Accented
ord(c) == CHOOSE i \in DOMAIN CodeOrder : CodeOrder[i] = c

\* str < str
RECURSIVE StrLess(_, _)
StrLess(a, b) ==
    IF b = <<>> THEN FALSE
    ELSE IF a = <<>> THEN TRUE
    ELSE IF a[1] # b[1] THEN ord(a[1]) < ord(b[1])
    ELSE StrLess(Tail(a), Tail(b))

\* str.lower()
lower(word) ==
    [i \in DOMAIN word |->
        IF \E k \in DOMAIN Upper : Upper[k] = word[i]
        THEN Lower[CHOOSE k \in DOMAIN Upper : Upper[k] = word[i]]
        ELSE word[i]]

isdigit(word) == word # <<>> /\ \A i \in DOMAIN word : word[i] \in Range(Digits)
isalpha(word) ==
    word # <<>> /\ \A i \in DOMAIN word :
                      word[i] \in Range(Upper) \cup Range(Lower) \cup Range(Accented)

\* str.strip() on a text: the blanks at both ends go
RECURSIVE lstrip(_)
lstrip(t) == IF t # <<>> /\ t[1] = <<" ">> THEN lstrip(Tail(t)) ELSE t
RECURSIVE rstrip(_)
rstrip(t) ==
    IF t # <<>> /\ t[Len(t)] = <<" ">> THEN rstrip(SubSeq(t, 1, Len(t) - 1)) ELSE t
strip(t) == rstrip(lstrip(t))

\* what the annotator says of each word it may meet
Lexicon == {
    [text |-> <<" ">>, lemma_ |-> <<" ">>, pos_ |-> "SPACE", is_stop |-> FALSE],
    [text |-> <<"a", "a", "p">>, lemma_ |-> <<"a", "a", "p">>, pos_ |-> "NOUN", is_stop |-> FALSE],
    [text |-> <<"a", "p", "e", "n">>, lemma_ |-> <<"a", "a", "p">>, pos_ |-> "NOUN", is_stop |-> FALSE],
    [text |-> <<"k", "a", "t">>, lemma_ |-> <<"k", "a", "t">>, pos_ |-> "NOUN", is_stop |-> FALSE],
    [text |-> <<"K", "a", "t">>, lemma_ |-> <<"K", "a", "t">>, pos_ |-> "PROPN", is_stop |-> FALSE],
    [text |-> <<"d", "e">>, lemma_ |-> <<"d", "e">>, pos_ |-> "DET", is_stop |-> TRUE],
    [text |-> <<"v", "e", "e", "l">>, lemma_ |-> <<"v", "e", "e", "l">>, pos_ |-> "ADV", is_stop |-> TRUE],
    [text |-> <<"a">>, lemma_ |-> <<"a">>, pos_ |-> "NOUN", is_stop |-> FALSE],
    [text |-> <<"a", "4">>, lemma_ |-> <<"a", "4">>, pos_ |-> "NOUN", is_stop |-> FALSE]}

Surfaces == {t.text : t \in Lexicon}
KnownPool == {<<"a", "a", "p">>, <<"k", "a", "t">>}

\* doc = self.nlp(text), line 71
nlp(t) == [i \in DOMAIN t |-> CHOOSE tok \in Lexicon : tok.text = t[i]]

\* _is_valid_dutch_word, lines 124-150
valid_chars == Range(Lower) \cup Range(Accented)

_is_valid_dutch_word(word) ==
    IF ~(\A i \in DOMAIN word : lower(word)[i] \in valid_chars) THEN FALSE
    ELSE IF Len(word) < 2 THEN FALSE
    ELSE IF isdigit(word) \/ ~isalpha(word) THEN FALSE
    ELSE TRUE

\* the stop word test forgotten
Keeps_NoStop(token, known) ==
    /\ token.pos_ \in {"NOUN", "VERB", "ADJ", "ADV", "PROPN"}
    /\ lower(token.lemma_) \notin known
    /\ Len(lower(token.lemma_)) >= 2
    /\ _is_valid_dutch_word(lower(token.lemma_))

\* the known words test forgotten
Keeps_NoKnown(token, known) ==
    /\ token.pos_ \in {"NOUN", "VERB", "ADJ", "ADV", "PROPN"}
    /\ ~token.is_stop
    /\ Len(lower(token.lemma_)) >= 2
    /\ _is_valid_dutch_word(lower(token.lemma_))

\* the tests of _extract_unfamiliar_words on one token, lines 97-117
Keeps(token, known) ==
    /\ token.pos_ \in {"NOUN", "VERB", "ADJ", "ADV", "PROPN"}
    /\ ~token.is_stop
    /\ lower(token.lemma_) \notin known
    /\ Len(lower(token.lemma_)) >= 2
    /\ _is_valid_dutch_word(lower(token.lemma_))

\* a dict is the sequence of its entries, in insertion order;
\* unfamiliar_words[lemma].append(surface_form), line 120
DictAppend(d, lemma, surface_form) ==
    IF \E k \in DOMAIN d : d[k].lemma = lemma
    THEN [k \in DOMAIN d |->
             IF d[k].lemma = lemma
             THEN [d[k] EXCEPT !.surface_forms = Append(@, surface_form)]
             ELSE d[k]]
    ELSE Append(d, [lemma |-> lemma, surface_forms |-> <<surface_form>>])

RECURSIVE ExtractLoop(_, _, _, _)
ExtractLoop(doc, known, i, unfamiliar_words) ==
    IF i > Len(doc) THEN unfamiliar_words
    ELSE ExtractLoop(doc, known, i + 1,
            IF Keeps(doc[i], known)
            THEN DictAppend(unfamiliar_words, lower(doc[i].lemma_), doc[i].text)
            ELSE unfamiliar_words)

\* lines 84-122
_extract_unfamiliar_words(doc, known) == ExtractLoop(doc, known, 1, <<>>)

\* lines 168-174: the forms of one lemma, each kept the first time it is seen
RECURSIVE unique_forms(_, _, _)
unique_forms(surface_forms, i, acc) ==
    IF i > Len(surface_forms) THEN acc
    ELSE unique_forms(surface_forms, i + 1,
            IF surface_forms[i] \notin Range(acc)
            THEN Append(acc, surface_forms[i]) ELSE acc)

\* the de-duplication forgotten
_merge_surface_forms_NoDedup(words) == words

\* lines 152-176
_merge_surface_forms(words) ==
    [k \in DOMAIN words |->
        [lemma |-> words[k].lemma,
         surface_forms |-> unique_forms(words[k].surface_forms, 1, <<>>)]]

\* the sort key (-count, lemma) of line 198, compared as tuples are
KeyLess(x, y) ==
    \/ (0 - x.count) < (0 - y.count)
    \/ x.count = y.count /\ StrLess(x.lemma, y.lemma)

\* sorted(results, key=...): stable, smallest key first
RECURSIVE sorted(_)
sorted(rs) ==
    IF rs = <<>> THEN <<>>
    ELSE LET m == CHOOSE i \in DOMAIN rs :
                     /\ \A j \in DOMAIN rs : ~KeyLess(rs[j], rs[i])
                     /\ \A j \in 1..(i - 1) : KeyLess(rs[i], rs[j]) \/ KeyLess(rs[j], rs[i])
         IN <<rs[m]>> \o sorted(SubSeq(rs, 1, m - 1) \o SubSeq(rs, m + 1, Len(rs)))

\* lines 188-195: the result records, in the order of the dict
Formatted(words) ==
    [k \in DOMAIN words |->
        [lemma |-> words[k].lemma,
         surface_forms |-> words[k].surface_forms,
         count |-> Len(words[k].surface_forms)]]

\* the final sort forgotten
_format_results_Unsorted(words) == Formatted(words)

\* lines 178-198
_format_results(words) == sorted(Formatted(words))

\* the value process_text hands back, or the exception it ends with
Returned(rs, n, outcome) ==
    [status |-> "done", results |-> rs, annotator_calls |-> n,
     annotator_outcome |-> outcome, err |-> NoError]
Raised(n, e) ==
    [status |-> "failed", results |-> <<>>, annotator_calls |-> n,
     annotator_outcome |-> "raised", err |-> e]

\* what self.nlp(text) may raise: nothing in process_text catches it
AnnotatorError == [type |-> "Exception", content |-> "self.nlp(text)"]

\* lines 71-82: annotate, extract, merge, format; `raises` is whether the
\* annotator raises on this text
Annotated(t, known, raises) ==
    IF raises THEN Raised(1, AnnotatorError)
    ELSE Returned(_format_results(_merge_surface_forms(
                      _extract_unfamiliar_words(nlp(t), known))), 1, "doc")

\* the blank test of lines 63-64 forgotten
process_text_NoBlankCheck(model, t, known, raises) ==
    IF model = "None" THEN Returned(<<>>, 0, "")
    ELSE Annotated(t, known, raises)

\* an exception of the annotator answered with the empty list
process_text_Swallow(model, t, known, raises) ==
    IF strip(t) = <<>> THEN Returned(<<>>, 0, "")
    ELSE IF model = "None" THEN Returned(<<>>, 0, "")
    ELSE IF raises THEN Returned(<<>>, 1, "raised")
    ELSE Annotated(t, known, raises)

\* process_text, lines 52-82; model is self.nlp
process_text(model, t, known, raises) ==
    IF strip(t) = <<>> THEN Returned(<<>>, 0, "")
    ELSE IF model = "None" THEN Returned(<<>>, 0, "")
    ELSE Annotated(t, known, raises)

InitNLP ==
    /\ text \in SeqsUpTo(Surfaces, MaxTokens)
    /\ known_words \in SUBSET KnownPool
    /\ nlp_pc = "new"
    /\ annotator_calls = 0
    /\ results = <<>>
    /\ self_nlp = "None"
    /\ annotator_outcome = ""
    /\ nlp_err = NoError
    /\ self_nlp = "None"
    /\ annotator_outcome = ""
    /\ nlp_err = [type |-> "", content |-> ""]
    /\ word_tbl = {}
    /\ definition_tbl = {}
    /\ batch_size = 1
    /\ pc = "idle"
    /\ lemmas = <<>>
    /\ existing_words = <<>>
    /\ new_lemmas = <<>>
    /\ bi = 1
    /\ definitions = <<>>
    /\ new_definitions = <<>>
    /\ result = <<>>
    /\ calls = <<>>
    /\ resp = NoResponse
    /\ err = NoError
    /\ pre = [word |-> {}, definition |-> {}]
    /\ prev = NoCall
    /\ merger = <<>>
    /\ NoDecks

\* NLPService(), lines 23-50: self.nlp = None, then _load_model; spacy.load
\* returns the model or raises, and _load_model re-raises
LoadModel ==
    /\ nlp_pc = "new"
    /\ \/ /\ self_nlp' = "loaded"
          /\ nlp_pc' = "idle"
          /\ nlp_err' = NoError
       \/ /\ self_nlp' = "None"
          /\ nlp_pc' = "failed"
          /\ nlp_err' = [type |-> "OSError", content |-> "spacy.load"]
    /\ UNCHANGED <<text, known_words, annotator_calls, results, annotator_outcome,
                   merger, word_tbl, definition_tbl, batch_size,
                   pc, lemmas, existing_words, new_lemmas, bi, definitions,
                   new_definitions, result, calls, resp, err, pre, prev, decks>>

\* a caller runs process_text(text, known_words) on the service built, to
\* its return or to the exception that ends it
ProcessText ==
    /\ nlp_pc = "idle"
    /\ \E raises \in BOOLEAN :
         LET r == process_text(self_nlp, text, known_words, raises)
         IN /\ results' = r.results
            /\ annotator_calls' = annotator_calls + r.annotator_calls
            /\ annotator_outcome' = r.annotator_outcome
            /\ nlp_err' = r.err
            /\ nlp_pc' = r.status
    /\ UNCHANGED <<text, known_words, self_nlp, merger, word_tbl, definition_tbl,
                   batch_size, pc, lemmas, existing_words, new_lemmas, bi,
                   definitions, new_definitions, result, calls, resp, err, pre, prev,
                   decks>>

NextNLP == LoadModel \/ ProcessText

SpecNLP == InitNLP /\ [][NextNLP]_vars



\* =================================================================== claims
\* the store holds a word row with that lemma and language "nl", and a
\* definition row for that word
Stored(wt, dt, l) ==
    \E w \in wt : /\ w.lemma = l
                  /\ w.language = "nl"
                  /\ \E d \in dt : d.word_id = w.id

LemmaOf(d) == (CHOOSE w \in word_tbl : w.id = d.word_id).lemma

RECURSIVE Concat(_)
Concat(ss) == IF ss = <<>> THEN <<>> ELSE Head(ss) \o Concat(Tail(ss))

Ended == pc \in {"done", "failed"}

\* ---- C1
\* C1 as stated: when [L] is enriched twice in a row from a store without a
\* definition for L and both calls return, the two calls together issue exactly
\* one service request and both return one Definition with the same content.
C1_ExactlyOneCall ==
    (prev.status = "done" /\ pc = "done" /\ prev.novel = prev.lemmas)
        => /\ prev.ncalls + Len(calls) = 1
           /\ Len(prev.result) = 1 /\ Len(result) = 1
           /\ prev.result[1].definition = result[1].definition

\* C1 amended: when the first of the two calls returned a Definition for L,
\* the second call issues no service request and returns a Definition with
\* the same content; the first call issued one request, or two when the
\* structured request fell back.
C1_SecondCallFromStore ==
    (prev.status = "done" /\ Ended /\ prev.novel = prev.lemmas /\ prev.result # <<>>)
        => /\ pc = "done"
           /\ calls = <<>>
           /\ prev.ncalls \in {1, 2}
           /\ Len(prev.result) = 1 /\ Len(result) = 1
           /\ result[1].definition = prev.result[1].definition

C1_Witness ==
    /\ prev.status = "done" /\ pc = "done"
    /\ prev.novel = prev.lemmas /\ prev.result # <<>>
    /\ prev.ncalls = 2

\* ---- C2
\* C2: the definitions returned are in the order of the input list: they can
\* be matched to strictly increasing positions of the input whose lemmas are
\* the lemmas of the returned definitions.
C2_InputOrder ==
    pc = "done" =>
        \E f \in [DOMAIN result -> DOMAIN lemmas] :
            /\ \A i \in DOMAIN result : lemmas[f[i]] = LemmaOf(result[i])
            /\ \A i, j \in DOMAIN result : i < j => f[i] < f[j]

\* a cached lemma requested after a novel one: arrival order differs
C2_Witness ==
    /\ pc = "done"
    /\ Len(result) = 2
    /\ existing_words # <<>> /\ new_definitions # <<>>
    /\ result # existing_words \o new_definitions
    /\ LemmaOf(result[1]) # LemmaOf(result[2])

\* ---- C3
\* C3: the gate puts a requested lemma among the cached ones exactly when the
\* store holds its word (same lemma, language "nl") and a definition of that
\* word; the novel list is the rest of the input, in input order.
C3_GateClassifies ==
    pc # "idle" =>
        LET Novel(l) == ~Stored(pre.word, pre.definition, l)
            Cached(l) == Stored(pre.word, pre.definition, l)
            cached == SelectSeq(lemmas, Cached)
        IN /\ new_lemmas = SelectSeq(lemmas, Novel)
           /\ Len(existing_words) = Len(cached)
           /\ \A i \in DOMAIN cached :
                \E w \in pre.word : /\ w.lemma = cached[i]
                                    /\ existing_words[i] \in pre.definition
                                    /\ existing_words[i].word_id = w.id

\* a word without definition is classified novel beside a cached lemma
C3_Witness ==
    /\ pc = "generate"
    /\ existing_words # <<>>
    /\ \E l \in Range(new_lemmas) : \E w \in pre.word : w.lemma = l

\* ---- C4
\* C4: every request to the service carries only lemmas that had no stored
\* definition, and no request is made when every requested lemma has one.
C4_OnlyNovelSent ==
    /\ \A i \in DOMAIN calls : \A l \in Range(calls[i].batch) :
          ~Stored(pre.word, pre.definition, l)
    /\ (pc # "idle" /\ \A l \in Range(lemmas) : Stored(pre.word, pre.definition, l))
          => calls = <<>>

C4_Witness ==
    /\ calls # <<>>
    /\ existing_words # <<>>
    /\ definition_tbl # {}

\* ---- C5
\* C5: for a batch_size of at least one, when generate_definitions returns
\* without any fallback, the batches it sent are consecutive pieces of the
\* input of at most batch_size lemmas, all but the last of exactly batch_size,
\* and there are ceil(n / batch_size) of them.
C5_Batching ==
    (batch_size >= 1 /\ pc = "save" /\ \A i \in DOMAIN calls : calls[i].path = "structured")
        => LET sent == [i \in DOMAIN calls |-> calls[i].batch]
               n == Len(new_lemmas)
           IN /\ Concat(sent) = new_lemmas
              /\ \A i \in DOMAIN sent : Len(sent[i]) >= 1 /\ Len(sent[i]) <= batch_size
              /\ \A i \in DOMAIN sent : i < Len(sent) => Len(sent[i]) = batch_size
              /\ Len(calls) = (n + batch_size - 1) \div batch_size

\* three lemmas, batch size two: two requests, of sizes 2 and 1
C5_Witness ==
    /\ pc = "save"
    /\ Len(new_lemmas) = 3 /\ batch_size = 2
    /\ Len(calls) = 2
    /\ \A i \in DOMAIN calls : calls[i].path = "structured"
    /\ Len(calls[1].batch) = 2 /\ Len(calls[2].batch) = 1


\* ---- C6
\* C6: when a batch fails to parse on both paths, the definitions of the
\* batches parsed before it are persisted all the same.
C6_PartialSuccess ==
    (pc = "failed" /\ err.type = "ValueError")
        => \A i \in DOMAIN definitions :
              Stored(word_tbl, definition_tbl, definitions[i].lemma)

\* ---- C7
\* C7: whenever the structured payload is absent, unparseable or holds an
\* item that does not satisfy the schema, the batch is reissued as a plain
\* request: the call never ends right after a structured response.
C7_AlwaysFallback ==
    (resp.path = "structured"
        /\ (resp.kind \in {"absent", "malformed"} \/ ~resp.schema_ok))
        => pc = "fallback"

\* ---- C8
\* C8: a fallback text holding an object with a "definitions" list of valid
\* items makes the batch succeed: no error is raised.
C8_FallbackSameShape ==
    (resp.path = "fallback" /\ resp.kind = "object" /\ resp.schema_ok)
        => pc # "failed"

\* ---- C9
\* C9: when the structured path and then the fallback path fail to yield the
\* items of a batch, the call ends with a parse error (ValueError) that
\* carries the fallback content, and the batch has had exactly its two
\* requests, the structured one and the fallback one.
C9_ParseErrorWithContent ==
    (pc = "failed" /\ resp.path = "fallback" /\ resp.kind # "api_error")
        => /\ err.type = "ValueError"
           /\ err.content = resp.content
           /\ Len(calls) >= 2
           /\ calls[Len(calls)].path = "fallback"
           /\ calls[Len(calls) - 1] = [calls[Len(calls)] EXCEPT !.path = "structured"]

\* the part of C9 about the number of requests: every batch gets at most one
\* structured request and, right after it, at most one fallback request
C9_CallsPerBatch ==
    /\ \A i, j \in DOMAIN calls :
          (i < j /\ calls[i].bi = calls[j].bi)
              => /\ j = i + 1
                 /\ calls[i].path = "structured"
                 /\ calls[j].path = "fallback"
    /\ \A i, j \in DOMAIN calls : i < j => calls[i].bi <= calls[j].bi

\* ---- C10
\* C10: an item whose lemma was not requested is dropped: generate_definitions
\* does not return it, and no word or definition row is created or changed
\* for it.
C10_UnrequestedDiscarded ==
    /\ pc \in {"save", "done"}
          => \A i \in DOMAIN definitions : definitions[i].lemma \in Range(new_lemmas)
    /\ pc = "done"
          => /\ \A w \in word_tbl \ pre.word : w.lemma \in Range(new_lemmas)
             /\ \A d \in definition_tbl \ pre.definition :
                   \E w \in word_tbl : w.id = d.word_id /\ w.lemma \in Range(new_lemmas)


\* ---- C11
\* C11: when a call returns fewer definitions than lemmas were requested, its
\* return value also lists the lemmas that were not enriched.
C11_MissingReported ==
    (pc = "done" /\ Len(result) < Len(lemmas))
        => /\ "failed" \in DOMAIN ReturnValue
           /\ \A l \in Range(lemmas) :
                 ~Stored(word_tbl, definition_tbl, l) => l \in Range(ReturnValue.failed)

\* ---- C12
\* C12: in every store state the enrichment calls reach, no word has two
\* definition rows and no lemma has two word rows.
C12_AtMostOne ==
    /\ \A d1, d2 \in definition_tbl : d1.word_id = d2.word_id => d1 = d2
    /\ \A w1, w2 \in word_tbl : w1.lemma = w2.lemma => w1 = w2

\* one call saved two items of the same lemma, with different content
C12_Witness ==
    /\ pc = "done"
    /\ Len(definitions) = 2
    /\ definitions[1].lemma = definitions[2].lemma
    /\ definitions[1].definition # definitions[2].definition
    /\ Cardinality({w \in word_tbl : w.lemma = definitions[1].lemma}) = 1

\* ---- C13
\* C13: the Definition that _save_definition returns carries the content just
\* written, on the update path as on the create path.
C13_ReturnsUpdated ==
    pc = "done" =>
        \A i \in DOMAIN new_definitions :
            new_definitions[i].definition = definitions[i].definition

\* ---- C14
\* C14: of two callers running _save_word for the same lemma at the same
\* time, neither ends with an error: the one whose create comes second gets
\* the word the other created.
C14_CreateRaceNoError ==
    \A p, q \in Mergers :
        (p # q /\ merger[p].item.lemma = merger[q].item.lemma)
            => ~(merger[p].pc = "failed" /\ merger[p].word = NoWord)

\* ---- C15
\* C15: of two callers merging a definition for the same word at the same
\* time, the store never holds two definitions of the word, and the caller
\* that comes upon the other's definition updates it: it does not fail.
C15_DefinitionRace ==
    \A p, q \in Mergers :
        (p # q /\ merger[p].word # NoWord /\ merger[p].word = merger[q].word)
            => /\ Cardinality({d \in definition_tbl : d.word_id = merger[p].word.id}) <= 1
               /\ merger[p].pc # "failed"

\* ---- C16
\* C16: with a batch size of zero or less, no request is ever sent to the
\* generative service.
C16_BadBatchSizeRejected ==
    batch_size <= 0 => calls = <<>>

\* ---- C17
\* C17: a call with an empty lemma list ends with a validation error; it does
\* not go on to return an empty result.
C17_EmptyRejected ==
    (pc # "idle" /\ lemmas = <<>>)
        => (pc = "failed" /\ err.type = "ValidationError")


\* ---- C18
\* C18: on a text that is empty or holds only blanks, whatever the known
\* words, process_text returns the empty list and has not run the annotator.
C18_BlankTextEmpty ==
    (nlp_pc = "done" /\ \A i \in DOMAIN text : text[i] = <<" ">>)
        => (results = <<>> /\ annotator_calls = 0)

\* a text of two blanks, processed with some known words
C18_Witness ==
    /\ nlp_pc = "done"
    /\ text = << <<" ">>, <<" ">> >>
    /\ known_words # {}
    /\ results = <<>>

\* ---- C19
\* C19: the list process_text returns goes by descending count, equal counts
\* by ascending lemma, and holds no lemma twice.
C19_SortedNoDuplicate ==
    nlp_pc = "done" =>
        \A i, j \in DOMAIN results :
            i < j => /\ results[i].lemma # results[j].lemma
                     /\ \/ results[i].count > results[j].count
                        \/ /\ results[i].count = results[j].count
                           /\ StrLess(results[i].lemma, results[j].lemma)

\* kat met first, then two forms of aap: aap comes out first
C19_Witness ==
    /\ nlp_pc = "done"
    /\ Len(text) = 3
    /\ Len(results) = 2
    /\ results[1].count = 2 /\ results[2].count = 1
    /\ lower(nlp(text)[1].lemma_) = results[2].lemma

\* ---- C20
\* C20: in every group returned, surface_forms holds each distinct surface
\* string of the retained tokens of the lemma once, in the order in which
\* they first occur in the text, and count is the length of surface_forms.
C20_SurfaceForms ==
    nlp_pc = "done" =>
        \A g \in DOMAIN results :
            LET doc == nlp(text)
                hits == {i \in DOMAIN doc : /\ Keeps(doc[i], known_words)
                                            /\ lower(doc[i].lemma_) = results[g].lemma}
                forms == results[g].surface_forms
                first(f) == CHOOSE i \in hits :
                               doc[i].text = f /\ \A j \in hits : doc[j].text = f => i <= j
            IN /\ Range(forms) = {doc[i].text : i \in hits}
               /\ \A a, b \in DOMAIN forms : a < b => forms[a] # forms[b]
               /\ \A a, b \in DOMAIN forms : a < b => first(forms[a]) < first(forms[b])
               /\ results[g].count = Len(forms)

\* apen, aap, apen: one group, forms apen then aap, count 2
C20_Witness ==
    /\ nlp_pc = "done"
    /\ text = << <<"a", "p", "e", "n">>, <<"a", "a", "p">>, <<"a", "p", "e", "n">> >>
    /\ Len(results) = 1
    /\ results[1].surface_forms = << <<"a", "p", "e", "n">>, <<"a", "a", "p">> >>
    /\ results[1].count = 2


\* ---- C21
\* C21: a token's surface form is in the group of its lower-cased lemma if
\* and only if its part of speech is an accepted one, it is no stop word, its
\* lower-cased lemma is not a known word, has two characters or more, and is
\* made of accepted letters only; the call returns whatever the tokens are.
C21_FiveRules ==
    nlp_pc = "done" =>
        \A i \in DOMAIN text :
            LET token == nlp(text)[i]
                lemma == lower(token.lemma_)
            IN (/\ token.pos_ \in {"NOUN", "VERB", "ADJ", "ADV", "PROPN"}
                /\ ~token.is_stop
                /\ lemma \notin known_words
                /\ Len(lemma) >= 2
                /\ \A k \in DOMAIN lemma : lemma[k] \in valid_chars)
               <=> \E g \in DOMAIN results :
                      /\ results[g].lemma = lemma
                      /\ token.text \in Range(results[g].surface_forms)

\* aap is kept; the stop word veel and a4, with its digit, are dropped
C21_Witness ==
    /\ nlp_pc = "done"
    /\ text = << <<"a", "a", "p">>, <<"v", "e", "e", "l">>, <<"a", "4">> >>
    /\ Len(results) = 1
    /\ results[1].lemma = <<"a", "a", "p">>

\* ---- C22
\* C22: every lemma process_text returns is lower-cased, has two characters
\* or more, is made of accepted letters only, and is not in known_words.
C22_OutputLemmas ==
    nlp_pc = "done" =>
        \A g \in DOMAIN results :
            LET lemma == results[g].lemma
            IN /\ lower(lemma) = lemma
               /\ Len(lemma) >= 2
               /\ \A k \in DOMAIN lemma : lemma[k] \in valid_chars
               /\ lemma \notin known_words

\* aap is known: of aap and Kat only kat comes out, lower-cased
C22_Witness ==
    /\ nlp_pc = "done"
    /\ known_words = {<<"a", "a", "p">>}
    /\ text = << <<"a", "a", "p">>, <<"K", "a", "t">> >>
    /\ Len(results) = 1
    /\ results[1].lemma = <<"k", "a", "t">>

\* ---- C23
\* C23: the count of a group is the number of tokens of the text retained
\* for its lemma, every occurrence counted.
C23_CountIsOccurrences ==
    nlp_pc = "done" =>
        \A g \in DOMAIN results :
            results[g].count =
                Cardinality({i \in DOMAIN text :
                                /\ Keeps(nlp(text)[i], known_words)
                                /\ lower(nlp(text)[i].lemma_) = results[g].lemma})


\* ---- C26
\* C26: when the model cannot be loaded or the annotator raises, the call
\* ends with an error: no result, not even an empty one, is returned.
C26_AnnotatorFailureFatal ==
    /\ (nlp_pc # "new" /\ self_nlp = "None")
           => (nlp_pc = "failed" /\ nlp_err.type = "OSError")
    /\ annotator_outcome = "raised"
           => (nlp_pc = "failed" /\ nlp_err # NoError)
    /\ nlp_pc = "done"
           => (self_nlp = "loaded" /\ annotator_outcome \in {"", "doc"})

\* the annotator raised on a text with a word to extract
C26_Witness ==
    /\ nlp_pc = "failed"
    /\ self_nlp = "loaded"
    /\ annotator_outcome = "raised"
    /\ annotator_calls = 1
    /\ \E i \in DOMAIN text : Keeps(nlp(text)[i], known_words)


\* ---- C24
\* C24: the items generate_definitions returns come in the order of the
\* lemmas it was given, whatever their order in a response: of two items
\* returned for requested lemmas, the one whose lemma was requested first
\* comes first.
C24_RequestOrder ==
    (/\ pc = "save"
     /\ batch_size >= 1
     /\ \A i \in DOMAIN definitions : definitions[i].lemma \in Range(new_lemmas))
        => \A i, j \in DOMAIN definitions :
              i < j =>
                 LET pos(l) == CHOOSE k \in DOMAIN new_lemmas :
                                  new_lemmas[k] = l /\ \A m \in 1..(k - 1) : new_lemmas[m] # l
                 IN pos(definitions[i].lemma) <= pos(definitions[j].lemma)


\* ---- C25
\* C25: an item whose lemma, definition, example or translation is absent or
\* the empty string is not accepted: it is neither among the items returned
\* nor written to the store.
C25_NonEmptyFields ==
    /\ \A i \in DOMAIN definitions :
          \A f \in {"lemma", "definition", "example", "english_translation"} :
              definitions[i][f] \notin {"", Missing}
    /\ \A d \in definition_tbl : d.definition # ""


\* ---- C27
\* C27: the store is as the call found it until every batch has been
\* answered, and the classification of the gate is the one made on that
\* store before the first request: no row is written between two batches.
C27_StagesInOrder ==
    /\ pc \in {"generate", "fallback", "save", "failed"}
          => (word_tbl = pre.word /\ definition_tbl = pre.definition)
    /\ pc # "idle"
          => LET gate == CacheGate(pre.word, pre.definition, lemmas)
             IN existing_words = gate.existing_words /\ new_lemmas = gate.new_lemmas
    /\ (pc = "done" /\ new_lemmas # <<>>)
          => Len(calls) >= Len(_batch(new_lemmas, batch_size))

\* two batches were answered, then the rows were written
C27_Witness ==
    /\ pc = "done"
    /\ Len(calls) = 2
    /\ calls[1].bi = 1 /\ calls[2].bi = 2
    /\ Len(definitions) = 2
    /\ definition_tbl # pre.definition

\* ---- C28
\* C28: when every word of the store had its definition before the callers
\* began, every word of the store has exactly one definition in every state
\* they bring the store to.
C28_WordHasDefinition ==
    (\A w \in pre.word : \E d \in pre.definition : d.word_id = w.id)
        => \A w \in word_tbl :
              Cardinality({d \in definition_tbl : d.word_id = w.id}) = 1


\* ---- C29
\* C29: a lemma that had its definition in the store when the call began,
\* whether the gate served it from the store or the request did not name it,
\* has the same definition row when the call has returned.
C29_CachedUntouched ==
    pc = "done" =>
        \A l \in Lemmas :
            Stored(pre.word, pre.definition, l)
                => get_by_word_id(definition_tbl, get_by_lemma(word_tbl, l).id)
                     = get_by_word_id(pre.definition, get_by_lemma(pre.word, l).id)


\* ---- C30
\* C30: when a call with a deck ends with an error of the service or of the
\* parsing, the deck it created is not in the store, and words and
\* definitions are as they were before the call.
C30_NoDeckAfterFailure ==
    (pc = "failed" /\ err.type \in {"APIError", "ValueError"})
        => /\ \A d \in deck_tbl : d.id # deck_id
           /\ word_tbl = pre.word
           /\ definition_tbl = pre.definition

====
